---- MODULE Spec2Model ----
(***************************************************************************)
(* A model of uc3m_money: TransferRequest (validation, duplicate scan,     *)
(* append to the transfers store) and AccountManager (transfer_request,    *)
(* deposit_into_account, calculate_balance) over JSON store files.         *)
(*                                                                         *)
(* Python strings are sequences of one-character strings.  A float is a    *)
(* record [kind, milli]: kind "float" carries the value in thousandths,    *)
(* kind "nan" is float('nan'), kind "text" is a non-numeric string.        *)
(* Time is counted in half days since 1970-01-01 (UTC).                    *)
(***************************************************************************)
EXTENDS Integers, Sequences, FiniteSets, TLC

VARIABLES
    files,   \* path -> [st: "absent" | "corrupt" | "ok", recs: list of records]
    now,     \* the UTC clock, in half days since the epoch
    call,    \* the last completed call: its operation, arguments, outcome
    arg      \* the pending input of a validator, when one is exercised alone

vars == <<files, now, call, arg>>

(***************************************************************************)
(* Bounds of the model.                                                    *)
(***************************************************************************)
MaxRecords == 2      \* records the stores gain in one behaviour
MaxTicks == 1        \* half days the clock advances in one behaviour

(***************************************************************************)
(* Characters and strings.                                                 *)
(***************************************************************************)
DigitChars == <<"0", "1", "2", "3", "4", "5", "6", "7", "8", "9">>
Digit == {DigitChars[i] : i \in 1..10}
UpperChars == <<"A", "B", "C", "D", "E", "F", "G", "H", "I", "J", "K", "L", "M",
                "N", "O", "P", "Q", "R", "S", "T", "U", "V", "W", "X", "Y", "Z">>
Upper == {UpperChars[i] : i \in 1..26}
Lower == {"a", "b", "c", "d", "e", "f", "g", "h", "i", "j", "k", "l", "m",
          "n", "o", "p", "q", "r", "s", "t", "u", "v", "w", "x", "y", "z"}
Letter == Upper \cup Lower
\* the characters \s matches among those the model uses: space, tab, newline
Whitespace == {" ", "\t", "\n"}

Chr(n) == DigitChars[n + 1]
DigitVal(c) == CHOOSE n \in 0..9 : DigitChars[n + 1] = c
TwoDigits(n) == <<Chr(n \div 10), Chr(n % 10)>>
Rep(c, n) == [i \in 1..n |-> c]

\* s[a:b] of Python, 0-based, end exclusive, clipped to the string
Slice(s, a, b) == SubSeq(s, a + 1, IF b < Len(s) THEN b ELSE Len(s))
SliceFrom(s, a) == SubSeq(s, a + 1, Len(s))

\* str.replace(c, r) for a one-character c
RECURSIVE replace(_, _, _)
replace(s, c, r) ==
    IF s = <<>> THEN <<>>
    ELSE (IF Head(s) = c THEN r ELSE <<Head(s)>>) \o replace(Tail(s), c, r)

\* int(s) % m for a string of decimal digits; int(s) itself has 26 digits,
\* so the remainder is taken digit by digit
RECURSIVE IntMod(_, _, _)
IntMod(s, m, acc) ==
    IF s = <<>> THEN acc
    ELSE IntMod(Tail(s), m, (acc * 10 + DigitVal(Head(s))) % m)

\* int(s) for a short string of decimal digits
RECURSIVE IntOf(_, _)
IntOf(s, acc) ==
    IF s = <<>> THEN acc ELSE IntOf(Tail(s), acc * 10 + DigitVal(Head(s)))

(***************************************************************************)
(* TransferRequest.validate_iban                                           *)
(***************************************************************************)
\* re.compile(r"^ES[0-9]{22}").fullmatch(value)
IbanRegex(value) ==
    /\ Len(value) = 24
    /\ value[1] = "E"
    /\ value[2] = "S"
    /\ \A i \in 3..24 : value[i] \in Digit

\* the chain of replace('A','10') ... replace('Z','35'), in the code's order
RECURSIVE ReplaceLetters(_, _)
ReplaceLetters(s, k) ==
    IF k > 26 THEN s
    ELSE ReplaceLetters(replace(s, UpperChars[k], TwoDigits(k + 9)), k + 1)

Raise(msg, steps) == [err |-> msg, ret |-> <<>>, steps |-> steps]
Return(value, steps) == [err |-> "", ret |-> value, steps |-> steps]

validate_iban_skips_control(iban) ==
    IF ~IbanRegex(iban)
    THEN Raise("Invalid IBAN format", <<"check_regular">>)
    ELSE Return(ReplaceLetters(SliceFrom(iban, 4) \o Slice(iban, 0, 2) \o <<"0", "0">>, 1),
                <<"check_regular", "mod97">>)

validate_iban(iban) ==
    IF ~IbanRegex(iban)
    THEN Raise("Invalid IBAN format", <<"check_regular">>)
    ELSE LET original_code == Slice(iban, 2, 4)
             zeroed == Slice(iban, 0, 2) \o <<"0", "0">> \o SliceFrom(iban, 4)
             rotated == SliceFrom(zeroed, 4) \o Slice(zeroed, 0, 4)
             numeric == ReplaceLetters(rotated, 1)
             mod == IntMod(numeric, 97, 0)
             control_digit == 98 - mod
         IN IF IntOf(original_code, 0) # control_digit
            THEN Raise("Invalid IBAN control digit", <<"check_regular", "mod97">>)
            ELSE Return(numeric, <<"check_regular", "mod97">>)

(***************************************************************************)
(* Inputs of the IBAN validator.                                           *)
(***************************************************************************)
Bban1 == <<"2","1","0","0","0","4","1","8","4","5","0","2","0","0","0","5","1","3","3","2">>
Bban2 == Rep("0", 19) \o <<"3">>
Bban3 == Rep("0", 18) \o <<"8", "2">>
Bbans == {Bban1, Bban2, Bban3}
Iban(cc, bban) == <<"E", "S">> \o TwoDigits(cc) \o bban

IBAN_A == Iban(91, Bban1)           \* ES9121000418450200051332
IBAN_B == Iban(98, Bban2)           \* ES9800000000000000000003
IBAN_BadControl == Iban(0, Bban1)   \* ES0021000418450200051332
IBAN_Short == <<"E", "S", "9", "1">>

MalformedIbans ==
    { <<>>,
      IBAN_Short,
      IBAN_A \o <<"0">>,
      IBAN_A \o <<"\n">>,
      <<"e", "s">> \o SliceFrom(IBAN_A, 2),
      <<"F", "R">> \o SliceFrom(IBAN_A, 2),
      Slice(IBAN_A, 0, 23) \o <<"X">>,
      Slice(IBAN_A, 0, 2) \o <<"9", "A">> \o SliceFrom(IBAN_A, 4),
      <<" ">> \o Slice(IBAN_A, 0, 23) }

IbanInputs == {Iban(cc, b) : cc \in 0..99, b \in Bbans} \cup MalformedIbans

(***************************************************************************)
(* TransferRequest.validate_concept                                        *)
(***************************************************************************)
\* ([a-zA-Z]+(\s[a-zA-Z]+)+) matched against all of s from position i on:
\* st = "start" before a word, "word" inside one; seps counts the \s seen
RECURSIVE MatchWords(_, _, _, _)
MatchWords(s, i, st, seps) ==
    IF i > Len(s) THEN st = "word" /\ seps >= 1
    ELSE IF s[i] \in Letter THEN MatchWords(s, i + 1, "word", seps)
    ELSE IF s[i] \in Whitespace /\ st = "word" THEN MatchWords(s, i + 1, "start", seps + 1)
    ELSE FALSE

\* (?=^.{10,30}$): 10 to 30 characters, none of them a newline
ConceptLookahead(s) ==
    /\ Len(s) >= 10
    /\ Len(s) <= 30
    /\ \A i \in 1..Len(s) : s[i] # "\n"

ConceptRegex(s) == ConceptLookahead(s) /\ MatchWords(s, 1, "start", 0)

validate_concept(concept) ==
    IF ~ConceptRegex(concept)
    THEN Raise("Invalid concept format", <<"check_regular">>)
    ELSE Return(<<>>, <<"check_regular">>)

(***************************************************************************)
(* TransferRequest.validate_transfer_type                                  *)
(***************************************************************************)
ORDINARY == <<"O", "R", "D", "I", "N", "A", "R", "Y">>
INMEDIATE == <<"I", "N", "M", "E", "D", "I", "A", "T", "E">>
IMMEDIATE == <<"I", "M", "M", "E", "D", "I", "A", "T", "E">>
URGENT == <<"U", "R", "G", "E", "N", "T">>

\* pattern.search(value) for an alternation of literals: some literal occurs in value
SearchAny(literals, value) ==
    \E l \in literals : \E i \in 0..Len(value) :
        i + Len(l) <= Len(value) /\ Slice(value, i, i + Len(l)) = l

\* check_regular: pattern.fullmatch(value) for an alternation of literals
check_regular(literals, value) == \E l \in literals : value = l

\* check_regex of the GE4 AccountManager: pattern.fullmatch(string)
check_regex(literals, string) == \E l \in literals : string = l

\* the transfer type check of the GE4 AccountManager.transfer_request
GE4_validate_transfer_type(transfer_type) ==
    IF ~check_regex({ORDINARY, IMMEDIATE, URGENT}, transfer_type)
    THEN Raise("Invalid transfer type", <<"check_regex">>)
    ELSE Return(<<>>, <<"check_regex">>)

validate_transfer_type(transfer_type) ==
    IF ~check_regular({ORDINARY, INMEDIATE, URGENT}, transfer_type)
    THEN Raise("Invalid transfer type", <<"check_regular">>)
    ELSE Return(<<>>, <<"check_regular">>)

(***************************************************************************)
(* Dates: datetime.now(timezone.utc).date() and datetime.strptime          *)
(***************************************************************************)
\* the civil date of a day number counted from 1970-01-01
CivilFromDays(days) ==
    LET z == days + 719468
        era == z \div 146097
        doe == z - era * 146097
        yoe == (doe - doe \div 1460 + doe \div 36524 - doe \div 146096) \div 365
        doy == doe - (365 * yoe + yoe \div 4 - yoe \div 100)
        mp == (5 * doy + 2) \div 153
        d == doy - (153 * mp + 2) \div 5 + 1
        m == IF mp < 10 THEN mp + 3 ELSE mp - 9
        y == yoe + era * 400 + (IF m <= 2 THEN 1 ELSE 0)
    IN [year |-> y, month |-> m, day |-> d]

\* datetime.now(timezone.utc).date() at clock value t (half days)
UtcDate(t) == CivilFromDays(t \div 2)

IsLeap(y) == (y % 4 = 0 /\ y % 100 # 0) \/ y % 400 = 0
DaysInMonth(m, y) ==
    IF m = 2 THEN (IF IsLeap(y) THEN 29 ELSE 28)
    ELSE IF m \in {4, 6, 9, 11} THEN 30 ELSE 31

\* r"^(([0-2]\d|3[0-1])\/(0\d|1[0-2])\/\d\d\d\d)$", fullmatch
DateRegex(s) ==
    /\ Len(s) = 10
    /\ \/ s[1] \in {"0", "1", "2"} /\ s[2] \in Digit
       \/ s[1] = "3" /\ s[2] \in {"0", "1"}
    /\ s[3] = "/"
    /\ \/ s[4] = "0" /\ s[5] \in Digit
       \/ s[4] = "1" /\ s[5] \in {"0", "1", "2"}
    /\ s[6] = "/"
    /\ \A i \in 7..10 : s[i] \in Digit

\* datetime.strptime(s, "%d/%m/%Y").date() for s matching DateRegex:
\* ok is FALSE where strptime raises ValueError
strptime(s) ==
    LET d == IntOf(Slice(s, 0, 2), 0)
        m == IntOf(Slice(s, 3, 5), 0)
        y == IntOf(Slice(s, 6, 10), 0)
    IN [ok |-> y >= 1 /\ m >= 1 /\ d >= 1 /\ d <= DaysInMonth(m, y),
        date |-> [year |-> y, month |-> m, day |-> d]]

\* date.__lt__
DateLt(a, b) ==
    \/ a.year < b.year
    \/ a.year = b.year /\ a.month < b.month
    \/ a.year = b.year /\ a.month = b.month /\ a.day < b.day

MinYear == 2025
MaxYear == 2050

validate_transfer_date_no_past_check(transfer_date, t) ==
    IF ~DateRegex(transfer_date)
    THEN Raise("Invalid date format", <<"check_regular">>)
    ELSE LET parsed == strptime(transfer_date) IN
         IF ~parsed.ok
         THEN Raise("Invalid date format", <<"check_regular", "strptime">>)
         ELSE IF parsed.date.year < MinYear \/ parsed.date.year > MaxYear
         THEN Raise("Invalid date format", <<"check_regular", "strptime", "now">>)
         ELSE Return(transfer_date, <<"check_regular", "strptime", "now">>)

validate_transfer_date(transfer_date, t) ==
    IF ~DateRegex(transfer_date)
    THEN Raise("Invalid date format", <<"check_regular">>)
    ELSE LET parsed == strptime(transfer_date) IN
         IF ~parsed.ok
         THEN Raise("Invalid date format", <<"check_regular", "strptime">>)
         ELSE IF DateLt(parsed.date, UtcDate(t))
         THEN Raise("Transfer date must be today or later.",
                    <<"check_regular", "strptime", "now">>)
         ELSE IF parsed.date.year < MinYear \/ parsed.date.year > MaxYear
         THEN Raise("Invalid date format", <<"check_regular", "strptime", "now">>)
         ELSE Return(transfer_date, <<"check_regular", "strptime", "now">>)

(***************************************************************************)
(* TransferRequest.validate_amount                                         *)
(***************************************************************************)
Float(milli) == [kind |-> "float", milli |-> milli]
NaN == [kind |-> "nan", milli |-> 0]
Text == [kind |-> "text", milli |-> 0]

\* float(amount): ok is FALSE where it raises ValueError
float(amount) == [ok |-> amount.kind # "text", value |-> amount]

\* len(str(amount_float).split('.')[1]) when '.' is in str(amount_float), else 0:
\* str() of a float prints the shortest decimal, and at least one fractional digit
Decimals(f) ==
    IF f.kind # "float" THEN 0
    ELSE IF f.milli % 10 # 0 THEN 3
    ELSE IF f.milli % 100 # 0 THEN 2
    ELSE 1

\* a < b on floats: every comparison with nan is False
FloatLt(a, b) == a.kind = "float" /\ b.kind = "float" /\ a.milli < b.milli

MinAmountMilli == 10000
MaxAmountMilli == 10000000

validate_amount(amount) ==
    LET parsed == float(amount) IN
    IF ~parsed.ok
    THEN Raise("Invalid transfer amount", <<"float">>)
    ELSE IF Decimals(parsed.value) > 2
    THEN Raise("Invalid transfer amount", <<"float", "decimals">>)
    ELSE IF \/ FloatLt(parsed.value, Float(MinAmountMilli))
            \/ FloatLt(Float(MaxAmountMilli), parsed.value)
    THEN Raise("Invalid transfer amount", <<"float", "decimals", "range">>)
    ELSE Return(<<>>, <<"float", "decimals", "range">>)

(***************************************************************************)
(* The store files (account_management_config) and json.load               *)
(***************************************************************************)
TRANSFERS_STORE_FILE == "TRANSFERS_STORE_FILE"
DEPOSITS_STORE_FILE == "DEPOSITS_STORE_FILE"
TRANSACTIONS_STORE_FILE == "TRANSACTIONS_STORE_FILE"
BALANCES_STORE_FILE == "BALANCES_STORE_FILE"
\* a second path a TransferRequest may be constructed with
OTHER_STORE_FILE == "OTHER_STORE_FILE"

Paths == {TRANSFERS_STORE_FILE, OTHER_STORE_FILE, DEPOSITS_STORE_FILE,
          TRANSACTIONS_STORE_FILE, BALANCES_STORE_FILE}

Absent == [st |-> "absent", recs |-> <<>>]
Corrupt == [st |-> "corrupt", recs |-> <<>>]
Stored(recs) == [st |-> "ok", recs |-> recs]

\* the records a store holds, an absent store holding none
Recs(f) == IF f.st = "ok" THEN f.recs ELSE <<>>

(***************************************************************************)
(* TransferRequest: __str__, transfer_code, to_json, is_duplicate_transfer *)
(***************************************************************************)
\* hashlib.md5(...).hexdigest(): the digest stands for its input (no collisions)
md5(text) == <<"md5", text>>

\* "Transfer:" + json.dumps(self.__dict__): all eight attributes of the object
str_six_fields_only(self) ==
    <<"Transfer:", [self EXCEPT !.time_stamp = 0, !.transfer_store_file = ""]>>

str(self) == <<"Transfer:", self>>

transfer_code(self) == md5(str(self))

to_json(self) ==
    [from_iban |-> self.from_iban,
     to_iban |-> self.to_iban,
     transfer_type |-> self.transfer_type,
     transfer_amount |-> self.transfer_amount,
     transfer_concept |-> self.concept,
     transfer_date |-> self.transfer_date,
     time_stamp |-> self.time_stamp,
     transfer_code |-> transfer_code(self)]

\* == on two amounts, one of them read back from JSON: nan equals nothing
AmountEq(a, b) == a.kind # "nan" /\ b.kind # "nan" /\ a = b

\* TRUE where is_duplicate_transfer raises
is_duplicate_transfer(self, t_i) ==
    /\ t_i.from_iban = self.from_iban
    /\ t_i.to_iban = self.to_iban
    /\ t_i.transfer_date = self.transfer_date
    /\ AmountEq(t_i.transfer_amount, self.transfer_amount)
    /\ t_i.transfer_concept = self.concept
    /\ t_i.transfer_type = self.transfer_type

(***************************************************************************)
(* TransferRequest.store_transfer_request                                  *)
(***************************************************************************)
Outcome(err, steps, fs) == [err |-> err, steps |-> steps, files |-> fs]

store_transfer_request_no_scan(self, fs) ==
    LET path == self.transfer_store_file
        file == fs[path]
    IN IF file.st = "corrupt"
       THEN Outcome("JSON Decode Error - Wrong JSON Format", <<"load">>, fs)
       ELSE Outcome("", <<"load", "scan", "dump">>,
                    [fs EXCEPT ![path] = Stored(Append(Recs(file), to_json(self)))])

store_transfer_request(self, fs) ==
    LET path == self.transfer_store_file
        file == fs[path]
    IN IF file.st = "corrupt"
       THEN Outcome("JSON Decode Error - Wrong JSON Format", <<"load">>, fs)
       ELSE LET t_l == Recs(file) IN
            IF \E i \in 1..Len(t_l) : is_duplicate_transfer(self, t_l[i])
            THEN Outcome("Duplicated transfer in transfer list", <<"load", "scan">>, fs)
            ELSE Outcome("", <<"load", "scan", "dump">>,
                         [fs EXCEPT ![path] = Stored(Append(t_l, to_json(self)))])

(***************************************************************************)
(* TransferRequest.__init__                                                *)
(***************************************************************************)
Object(from_iban, transfer_type, to_iban, transfer_concept, transfer_date, transfer_amount, transfer_store_file, t) ==
    [transfer_store_file |-> transfer_store_file,
     from_iban |-> from_iban,
     to_iban |-> to_iban,
     transfer_type |-> transfer_type,
     concept |-> transfer_concept,
     transfer_date |-> transfer_date,
     transfer_amount |-> transfer_amount,
     time_stamp |-> t]

\* validate_iban on the IBANs the callers submit, evaluated once per IBAN
CallerIbans == {IBAN_A, IBAN_B, IBAN_BadControl, IBAN_Short}
ValidatedIban == [iban \in CallerIbans |-> validate_iban(iban)]

\* the validators of __init__ in a given order, stopping at the first that raises;
\* order is a sequence of validator names
RECURSIVE RunValidators(_, _, _, _, _)
RunValidators(self, t, order, k, done) ==
    IF k > Len(order) THEN Outcome("", done, <<>>)
    ELSE LET name == order[k]
             r == CASE name = "validate_iban(from_iban)" -> ValidatedIban[self.from_iban]
                    [] name = "validate_iban(to_iban)" -> ValidatedIban[self.to_iban]
                    [] name = "validate_concept" -> validate_concept(self.concept)
                    [] name = "validate_transfer_type" ->
                           validate_transfer_type(self.transfer_type)
                    [] name = "validate_transfer_date" ->
                           validate_transfer_date(self.transfer_date, t)
                    [] name = "validate_amount" -> validate_amount(self.transfer_amount)
         IN IF r.err # ""
            THEN Outcome(r.err, Append(done, name), <<>>)
            ELSE RunValidators(self, t, order, k + 1, Append(done, name))

InitOrder_amount_first ==
    <<"validate_amount", "validate_iban(from_iban)", "validate_iban(to_iban)",
      "validate_concept", "validate_transfer_type", "validate_transfer_date">>

\* lines 31-36 of __init__
InitOrder ==
    <<"validate_iban(from_iban)", "validate_iban(to_iban)", "validate_concept",
      "validate_transfer_type", "validate_transfer_date", "validate_amount">>

\* TransferRequest(...): the outcome of construction at clock t over the files fs
TransferRequest(self, fs, t) ==
    LET v == RunValidators(self, t, InitOrder, 1, <<>>) IN
    IF v.err # ""
    THEN Outcome(v.err, v.steps, fs)
    ELSE LET st == store_transfer_request(self, fs) IN
         Outcome(st.err, v.steps \o <<"store_transfer_request">> \o st.steps, st.files)

(***************************************************************************)
(* float(text) on a string, as deposit_into_account and calculate_balance  *)
(* use it: an optional sign, digits with at most one point, at least one   *)
(* digit.  ok is FALSE where float raises ValueError.  (Exponents, inf,    *)
(* nan, blanks and underscores are not in the inputs of the model.)        *)
(***************************************************************************)
RECURSIVE ParseDigits(_, _, _, _, _)
ParseDigits(s, i, frac, digits, acc) ==
    IF i > Len(s)
    THEN [ok |-> digits >= 1,
          milli |-> IF frac <= 0 THEN acc * 1000
                    ELSE IF frac = 1 THEN acc * 100
                    ELSE IF frac = 2 THEN acc * 10 ELSE acc]
    ELSE IF s[i] \in Digit
    THEN IF frac >= 3
         THEN ParseDigits(s, i + 1, frac, digits + 1, acc)
         ELSE ParseDigits(s, i + 1, IF frac >= 0 THEN frac + 1 ELSE frac, digits + 1,
                          acc * 10 + DigitVal(s[i]))
    ELSE IF s[i] = "." /\ frac < 0
    THEN ParseDigits(s, i + 1, 0, digits, acc)
    ELSE [ok |-> FALSE, milli |-> 0]

float_of_str(s) ==
    LET neg == Len(s) >= 1 /\ s[1] = "-"
        signed == Len(s) >= 1 /\ s[1] \in {"-", "+"}
        p == ParseDigits(IF signed THEN Tail(s) ELSE s, 1, -1, 0, 0)
    IN [ok |-> p.ok, value |-> Float(IF neg THEN 0 - p.milli ELSE p.milli)]

(***************************************************************************)
(* AccountManager.transfer_request                                         *)
(***************************************************************************)
\* the records the program has appended to its stores
Appended(fs) ==
    Len(Recs(fs[TRANSFERS_STORE_FILE])) + Len(Recs(fs[OTHER_STORE_FILE]))
    + Len(Recs(fs[DEPOSITS_STORE_FILE])) + Len(Recs(fs[BALANCES_STORE_FILE]))

\* a call may run when it appends nothing or the stores have room left
Room(fs) == fs = files \/ Appended(files) < MaxRecords

\* a completed call: at is the clock value it ran at
Called(op, args, err, ret, steps) ==
    [op |-> op, args |-> args, err |-> err, ret |-> ret, steps |-> steps, at |-> now]

Construct(op, a, path) ==
    LET self == Object(a.from_iban, a.transfer_type, a.to_iban, a.concept, a.date,
                       a.amount, path, now)
        r == TransferRequest(self, files, now)
    IN /\ Room(r.files)
       /\ files' = r.files
       /\ call' = Called(op, a, r.err,
                         IF r.err = "" THEN transfer_code(self) ELSE <<>>, r.steps)
       /\ UNCHANGED <<now, arg>>

transfer_request(a) == Construct("transfer_request", a, TRANSFERS_STORE_FILE)

\* TransferRequest(...) constructed by a caller with a store path of its own
TransferRequest_other_store(a) == Construct("TransferRequest", a, OTHER_STORE_FILE)

\* the clock at the start of a behaviour: the second half of 31/12/2049
StartClock == 2 * 29219 + 1

\* the clock advances
Tick ==
    /\ now < StartClock + MaxTicks
    /\ now' = now + 1
    /\ UNCHANGED <<files, call, arg>>

(***************************************************************************)
(* AccountManager of src/main: deposit_into_account and calculate_balance  *)
(* call self.validate_iban, which this class does not define, so the call  *)
(* raises AttributeError.                                                  *)
(***************************************************************************)
NoValidateIban == "AttributeError: 'AccountManager' object has no attribute 'validate_iban'"

\* the input file of a deposit: absent, not JSON, or an object with some keys
DepositFile(st, keys, iban, amount) ==
    [st |-> st, keys |-> keys, IBAN |-> iban, AMOUNT |-> amount]

\* lines 34-47: json.load of the input file and the two keys
ReadDepositInput(input) ==
    IF input.st = "absent"
    THEN Raise("Error: file input not found", <<"open">>)
    ELSE IF input.st = "corrupt"
    THEN Raise("JSON Decode Error - Wrong JSON Format", <<"open", "json.load">>)
    ELSE IF ~({"IBAN", "AMOUNT"} \subseteq input.keys)
    THEN Raise("Error - Invalid Key in JSON", <<"open", "json.load", "keys">>)
    ELSE Return(<<>>, <<"open", "json.load", "keys">>)

deposit_into_account(input) ==
    LET i_d == ReadDepositInput(input) IN
    /\ files' = files
    /\ call' = IF i_d.err # ""
               THEN Called("deposit_into_account", input, i_d.err, <<>>, i_d.steps)
               ELSE Called("deposit_into_account", input, NoValidateIban, <<>>,
                           Append(i_d.steps, "validate_iban"))
    /\ UNCHANGED <<now, arg>>

calculate_balance(iban) ==
    /\ files' = files
    /\ call' = Called("calculate_balance", [iban |-> iban], NoValidateIban, <<>>,
                      <<"validate_iban">>)
    /\ UNCHANGED <<now, arg>>

(***************************************************************************)
(* AccountManager of G8X.2025.T00.GE4-main: validate_iban,                 *)
(* deposit_into_account, read_transactions_file, calculate_balance         *)
(***************************************************************************)
\* check_regex(r"^ES[0-9]{22}", iban) and the rest of validate_iban
GE4_validate_iban(iban) ==
    IF ~IbanRegex(iban)
    THEN Raise("Invalid IBAN format", <<"check_regex">>)
    ELSE LET original_code == Slice(iban, 2, 4)
             zeroed == Slice(iban, 0, 2) \o <<"0", "0">> \o SliceFrom(iban, 4)
             rotated == SliceFrom(zeroed, 4) \o Slice(zeroed, 0, 4)
             numeric == ReplaceLetters(rotated, 1)
             int_i == IntMod(numeric, 97, 0)
             control_digit == 98 - int_i
         IN IF IntOf(original_code, 0) # control_digit
            THEN Raise("Invalid IBAN control digit", <<"check_regex", "mod97">>)
            ELSE Return(numeric, <<"check_regex", "mod97">>)

\* GE4 validate_iban on the IBANs the callers submit, evaluated once per IBAN
GE4_ValidatedIban ==
    [iban \in {IBAN_A, IBAN_B, IBAN_BadControl, IBAN_Short, <<>>} |-> GE4_validate_iban(iban)]

\* r"^EUR [0-9]{4}\.[0-9]{2}", fullmatch
DepositAmountRegex(s) ==
    /\ Len(s) = 11
    /\ Slice(s, 0, 4) = <<"E", "U", "R", " ">>
    /\ \A i \in 5..8 : s[i] \in Digit
    /\ s[9] = "."
    /\ \A i \in 10..11 : s[i] \in Digit

\* line 193: is_valid_deposit_amount is the pair (pattern, deposit_amount),
\* which is true of every deposit_amount
GE4_is_valid_deposit_amount(deposit_amount) == TRUE

\* AccountDeposit(to_iban, deposit_amount).to_json()
AccountDeposit_to_json(to_iban, deposit_amount, t) ==
    [to_iban |-> to_iban,
     deposit_amount |-> deposit_amount,
     deposit_date |-> t,
     deposit_signature |-> <<"sha256", to_iban, deposit_amount, t>>]

AppendToStore_overwrites(path, rec, fs, steps) ==
    IF fs[path].st = "corrupt"
    THEN Outcome("JSON Decode Error - Wrong JSON Format", Append(steps, "load"), fs)
    ELSE Outcome("", steps \o <<"load", "dump">>, [fs EXCEPT ![path] = Stored(<<rec>>)])

\* lines 204-220: load the store, append, rewrite it
AppendToStore(path, rec, fs, steps) ==
    IF fs[path].st = "corrupt"
    THEN Outcome("JSON Decode Error - Wrong JSON Format", Append(steps, "load"), fs)
    ELSE Outcome("", steps \o <<"load", "dump">>,
                 [fs EXCEPT ![path] = Stored(Append(Recs(fs[path]), rec))])

GE4_deposit(input, fs, t) ==
    LET i_d == ReadDepositInput(input) IN
    IF i_d.err # "" THEN Outcome(i_d.err, i_d.steps, fs)
    ELSE LET v == GE4_ValidatedIban[input.IBAN]
             s1 == Append(i_d.steps, "validate_iban")
         IN
         IF v.err # "" THEN Outcome(v.err, s1, fs)
         ELSE IF ~GE4_is_valid_deposit_amount(input.AMOUNT)
         THEN Outcome("Error - Invalid deposit amount", Append(s1, "amount"), fs)
         ELSE LET deposit_amount_float == float_of_str(SliceFrom(input.AMOUNT, 4))
                  s2 == s1 \o <<"amount", "float">>
              IN
              IF ~deposit_amount_float.ok THEN Outcome("ValueError", s2, fs)
              ELSE IF deposit_amount_float.value.milli = 0
              THEN Outcome("Error - Deposit must be greater than 0", s2, fs)
              ELSE AppendToStore(DEPOSITS_STORE_FILE,
                       AccountDeposit_to_json(v.ret, deposit_amount_float.value, t),
                       fs, s2)

GE4_deposit_into_account(input) ==
    LET r == GE4_deposit(input, files, now) IN
    /\ Room(r.files)
    /\ files' = r.files
    /\ call' = Called("GE4.deposit_into_account", input, r.err,
                      IF r.err = ""
                      THEN Recs(r.files[DEPOSITS_STORE_FILE])[
                               Len(Recs(r.files[DEPOSITS_STORE_FILE]))].deposit_signature
                      ELSE <<>>,
                      r.steps)
    /\ UNCHANGED <<now, arg>>

\* read_transactions_file
read_transactions_file(fs) ==
    IF fs[TRANSACTIONS_STORE_FILE].st = "absent"
    THEN Raise("Wrong file  or file path", <<"open">>)
    ELSE IF fs[TRANSACTIONS_STORE_FILE].st = "corrupt"
    THEN Raise("JSON Decode Error - Wrong JSON Format", <<"open", "json.load">>)
    ELSE Return(fs[TRANSACTIONS_STORE_FILE].recs, <<"open", "json.load">>)

\* the loop of lines 244-248 from entry k on: found, the sum in thousandths,
\* and err where float(transaction["amount"]) raises
RECURSIVE SumMatching(_, _, _, _, _)
SumMatching(t_l, iban, k, found, sum) ==
    IF k > Len(t_l) THEN [err |-> "", found |-> found, sum |-> sum]
    ELSE IF t_l[k].IBAN = iban
    THEN LET f == float_of_str(t_l[k].amount) IN
         IF ~f.ok THEN [err |-> "ValueError", found |-> found, sum |-> sum]
         ELSE SumMatching(t_l, iban, k + 1, TRUE, sum + f.value.milli)
    ELSE SumMatching(t_l, iban, k + 1, found, sum)

GE4_balance(iban_arg, fs, t) ==
    LET v == GE4_ValidatedIban[iban_arg] IN
    IF v.err # "" THEN Outcome(v.err, <<"validate_iban">>, fs)
    ELSE LET iban == v.ret
             t_l == read_transactions_file(fs)
             s1 == <<"validate_iban", "read_transactions_file">>
         IN
         IF t_l.err # "" THEN Outcome(t_l.err, s1, fs)
         ELSE LET loop == SumMatching(t_l.ret, iban, 1, FALSE, 0) IN
              IF loop.err # "" THEN Outcome(loop.err, Append(s1, "sum"), fs)
              ELSE IF ~loop.found THEN Outcome("IBAN not found", Append(s1, "sum"), fs)
              ELSE AppendToStore(BALANCES_STORE_FILE,
                       [IBAN |-> iban, time |-> t, BALANCE |-> Float(loop.sum)],
                       fs, Append(s1, "sum"))

GE4_calculate_balance(iban) ==
    LET r == GE4_balance(iban, files, now) IN
    /\ Room(r.files)
    /\ files' = r.files
    /\ call' = Called("GE4.calculate_balance", [iban |-> iban], r.err,
                      IF r.err = "" THEN <<TRUE>> ELSE <<>>, r.steps)
    /\ UNCHANGED <<now, arg>>

(***************************************************************************)
(* Inputs of the calls.                                                    *)
(***************************************************************************)
Chars4(n) == TwoDigits(n \div 100) \o TwoDigits(n % 100)
\* a date written DD/MM/YYYY
FormatDate(d) == TwoDigits(d.day) \o <<"/">> \o TwoDigits(d.month) \o <<"/">> \o Chars4(d.year)
DateString(day, month, year) == FormatDate([year |-> year, month |-> month, day |-> day])

Concept_OK == <<"p", "a", "g", "o", " ", "a", "l", "q", "u", "i", "l", "e", "r">>
Concept_OneWord == <<"a", "l", "q", "u", "i", "l", "e", "r", "e", "s">>

Date_Start == DateString(31, 12, 2049)
Date_Next == DateString(1, 1, 2050)
Date_Unreal == DateString(31, 2, 2050)

TransferArgs(from_iban, to_iban, concept, transfer_type, date, amount) ==
    [from_iban |-> from_iban, to_iban |-> to_iban, concept |-> concept,
     transfer_type |-> transfer_type, date |-> date, amount |-> amount]

GoodArgs == TransferArgs(IBAN_A, IBAN_B, Concept_OK, ORDINARY, Date_Next, Float(10000))

\* what callers submit: a valid request, variants of it, and requests with one bad field
TransferInputs ==
    { GoodArgs,
      [GoodArgs EXCEPT !.date = Date_Start],
      [GoodArgs EXCEPT !.amount = NaN],
      [GoodArgs EXCEPT !.from_iban = IBAN_BadControl],
      [GoodArgs EXCEPT !.transfer_type = IMMEDIATE],
      [GoodArgs EXCEPT !.date = Date_Unreal],
      [GoodArgs EXCEPT !.amount = Float(9990)] }

EUR(text) == <<"E", "U", "R", " ">> \o text
Amount_10_50 == EUR(<<"0", "0", "1", "0", ".", "5", "0">>)
Amount_Zero == EUR(<<"0", "0", "0", "0", ".", "0", "0">>)
Amount_NoPadding == EUR(<<"1", "0", ".", "5">>)
Amount_Comma == EUR(<<"0", "0", "1", "0", ",", "5", "0">>)

DepositInputs ==
    { DepositFile("absent", {}, <<>>, <<>>),
      DepositFile("corrupt", {}, <<>>, <<>>),
      DepositFile("ok", {"IBAN"}, IBAN_A, <<>>),
      DepositFile("ok", {"IBAN", "AMOUNT"}, IBAN_A, Amount_10_50),
      DepositFile("ok", {"IBAN", "AMOUNT"}, IBAN_A, Amount_Zero),
      DepositFile("ok", {"IBAN", "AMOUNT"}, IBAN_A, Amount_NoPadding),
      DepositFile("ok", {"IBAN", "AMOUNT"}, IBAN_A, Amount_Comma),
      DepositFile("ok", {"IBAN", "AMOUNT"}, IBAN_BadControl, Amount_10_50) }

\* what the AccountManager of src/main is given
MainDepositInputs ==
    { DepositFile("absent", {}, <<>>, <<>>),
      DepositFile("ok", {"IBAN"}, IBAN_A, <<>>),
      DepositFile("ok", {"IBAN", "AMOUNT"}, IBAN_A, Amount_10_50),
      DepositFile("ok", {"IBAN", "AMOUNT"}, IBAN_A, Amount_NoPadding) }

BalanceInputs == {IBAN_A, IBAN_B, IBAN_BadControl, IBAN_Short}

\* the transaction log: two movements of IBAN_A, and one entry whose IBAN field
\* holds the digits validate_iban returns for IBAN_B
Movement(iban, amount) == [IBAN |-> iban, amount |-> amount]
TransactionLog ==
    << Movement(IBAN_A, <<"1", "0", "0", ".", "0">>),
       Movement(IBAN_A, <<"-", "3", "0", ".", "0">>),
       Movement(Bban2 \o <<"1", "4", "2", "8", "0", "0">>, <<"7", ".", "5">>) >>

(***************************************************************************)
(* The specification.                                                      *)
(***************************************************************************)
\* the stores before the first call: not yet created, empty, or unreadable
InitFiles ==
    { [p \in Paths |-> IF p = TRANSACTIONS_STORE_FILE THEN Stored(TransactionLog) ELSE Absent],
      [p \in Paths |-> IF p = TRANSACTIONS_STORE_FILE THEN Stored(TransactionLog)
                       ELSE Stored(<<>>)],
      [p \in Paths |-> IF p = TRANSACTIONS_STORE_FILE THEN Absent
                       ELSE IF p = OTHER_STORE_FILE THEN Stored(<<>>) ELSE Corrupt],
      [p \in Paths |-> IF p = TRANSACTIONS_STORE_FILE THEN Stored(TransactionLog)
                       ELSE Corrupt] }

NoCall == [op |-> "none", args |-> <<>>, err |-> "", ret |-> <<>>, steps |-> <<>>, at |-> 0]
NoArg == [fn |-> "none", val |-> <<>>]

Init ==
    /\ files \in InitFiles
    /\ now = StartClock
    /\ call = NoCall
    /\ arg = NoArg

Next ==
    \/ \E a \in TransferInputs : transfer_request(a)
    \/ \E input \in MainDepositInputs : deposit_into_account(input)
    \/ \E iban \in {IBAN_A} : calculate_balance(iban)
    \/ \E input \in DepositInputs : GE4_deposit_into_account(input)
    \/ \E iban \in BalanceInputs : GE4_calculate_balance(iban)
    \/ Tick

Spec == Init /\ [][Next]_vars

(***************************************************************************)
(* TransferRequest given requests with any mix of bad fields.              *)
(***************************************************************************)
RequestInputs ==
    { TransferArgs(f, t, c, ty, d, a) :
        f \in {IBAN_A, IBAN_BadControl}, t \in {IBAN_B, IBAN_Short},
        c \in {Concept_OK, Concept_OneWord}, ty \in {ORDINARY, IMMEDIATE},
        d \in {Date_Start, Date_Unreal}, a \in {Float(10000), Float(9990)} }

NextOrder ==
    \/ \E a \in RequestInputs : transfer_request(a)
    \/ Tick

SpecOrder == Init /\ [][NextOrder]_vars

(***************************************************************************)
(* TransferRequest constructed over either of two store paths.             *)
(***************************************************************************)
StoreInputs ==
    { GoodArgs,
      [GoodArgs EXCEPT !.date = Date_Start],
      [GoodArgs EXCEPT !.amount = Float(10000000)],
      [GoodArgs EXCEPT !.transfer_type = IMMEDIATE] }

NextStores ==
    \/ \E a \in StoreInputs : transfer_request(a)
    \/ \E a \in StoreInputs : TransferRequest_other_store(a)
    \/ Tick

SpecStores == Init /\ [][NextStores]_vars

(***************************************************************************)
(* What the specification of the program calls valid, stated on its own.   *)
(***************************************************************************)
\* 10^k mod 97
RECURSIVE Pow10Mod97(_)
Pow10Mod97(k) == IF k = 0 THEN 1 ELSE (10 * Pow10Mod97(k - 1)) % 97

\* a string of digits read as an integer, modulo 97: the sum of digit * 10^position
RECURSIVE WeightedMod97(_, _)
WeightedMod97(s, i) ==
    IF i > Len(s) THEN 0
    ELSE (DigitVal(s[i]) * Pow10Mod97(Len(s) - i) + WeightedMod97(s, i + 1)) % 97

\* 'ES' followed by exactly 22 digits
IbanShape(s) ==
    Len(s) = 24 /\ SubSeq(s, 1, 2) = <<"E", "S">> /\ \A i \in 3..24 : s[i] \in Digit

\* the check digits the BBAN asks for: 98 - (BBAN, then E=14 S=28, then 00) mod 97
ExpectedCheck(s) ==
    98 - WeightedMod97(SubSeq(s, 5, 24) \o <<"1", "4", "2", "8", "0", "0">>, 1)

IsValidIban(s) ==
    IbanShape(s) /\ DigitVal(s[3]) * 10 + DigitVal(s[4]) = ExpectedCheck(s)

ValidCallerIbans == {s \in CallerIbans : IsValidIban(s)}

\* 10-30 characters: words of letters, at least two, one space between neighbours
IsValidConcept(s) ==
    /\ Len(s) \in 10..30
    /\ \A i \in 1..Len(s) : s[i] \in Letter \cup {" "}
    /\ s[1] # " " /\ s[Len(s)] # " "
    /\ \A i \in 1..(Len(s) - 1) : ~(s[i] = " " /\ s[i + 1] = " ")
    /\ \E i \in 1..Len(s) : s[i] = " "

IsValidType(s) == s \in {ORDINARY, INMEDIATE, URGENT}

\* the day number, counted from 1970-01-01, that day/month/year names
DaysFromCivil(year, month, day) ==
    LET y == IF month <= 2 THEN year - 1 ELSE year
        era == y \div 400
        yoe == y - era * 400
        doy == (153 * (IF month > 2 THEN month - 3 ELSE month + 9) + 2) \div 5 + day - 1
        doe == yoe * 365 + yoe \div 4 - yoe \div 100 + doy
    IN era * 146097 + doe - 719468

\* two digits, a slash, two digits, a slash, four digits
DateShape(s) ==
    /\ Len(s) = 10
    /\ \A i \in {1, 2, 4, 5, 7, 8, 9, 10} : s[i] \in Digit
    /\ s[3] = "/" /\ s[6] = "/"

DayNumber(s) ==
    DaysFromCivil(IntOf(SubSeq(s, 7, 10), 0), IntOf(SubSeq(s, 4, 5), 0),
                  IntOf(SubSeq(s, 1, 2), 0))

\* a date of the calendar: the day it names is written the way it is written
IsRealDate(s) == DateShape(s) /\ FormatDate(CivilFromDays(DayNumber(s))) = s

\* a real date, today or later at clock t, of a year in [2025, 2050]
IsValidDate(s, t) ==
    /\ IsRealDate(s)
    /\ DayNumber(s) >= t \div 2
    /\ IntOf(SubSeq(s, 7, 10), 0) \in 2025..2050

\* at most 2 fractional digits and 10.00 <= amount <= 10000.00
IsValidAmount(a) ==
    a.kind = "float" /\ a.milli % 10 = 0 /\ a.milli >= 10000 /\ a.milli <= 10000000

IsValidRequest(a, t) ==
    /\ a.from_iban \in ValidCallerIbans
    /\ a.to_iban \in ValidCallerIbans
    /\ IsValidConcept(a.concept)
    /\ IsValidType(a.transfer_type)
    /\ IsValidDate(a.date, t)
    /\ IsValidAmount(a.amount)

\* the six fields a stored record and a request are compared on
SixOfRecord(r) ==
    <<r.from_iban, r.to_iban, r.transfer_date, r.transfer_amount, r.transfer_concept,
      r.transfer_type>>
SixOfArgs(a) ==
    <<a.from_iban, a.to_iban, a.date, a.amount, a.concept, a.transfer_type>>

Transfers == Recs(files[TRANSFERS_STORE_FILE])

(***************************************************************************)
(* The validators exercised alone: one input, one application.             *)
(***************************************************************************)
Pending(fn, val) == [fn |-> fn, val |-> val]
QuietFiles == [p \in Paths |-> Absent]

Apply(fn, r) ==
    /\ arg.fn = fn
    /\ call.op = "none"
    /\ call' = Called(fn, arg.val, r.err, r.ret, r.steps)
    /\ UNCHANGED <<files, now, arg>>

\* validate_iban
InitIban ==
    /\ files = QuietFiles
    /\ now = StartClock
    /\ call = NoCall
    /\ arg \in {Pending("validate_iban", i) : i \in IbanInputs}

Apply_validate_iban == Apply("validate_iban", validate_iban(arg.val))

SpecIban == InitIban /\ [][Apply_validate_iban]_vars

\* validate_amount: amounts around the two ends of the range, in thousandths
AmountWindow == 25
AmountInputs ==
    {Float(m) : m \in (MinAmountMilli - AmountWindow)..(MinAmountMilli + AmountWindow)}
    \cup {Float(m) : m \in (MaxAmountMilli - AmountWindow)..(MaxAmountMilli + AmountWindow)}
    \cup {Float(0), Float(-10000), Float(500000), Float(500500), Float(500550), Float(500555),
          NaN, Text}

InitAmount ==
    /\ files = QuietFiles
    /\ now = StartClock
    /\ call = NoCall
    /\ arg \in {Pending("validate_amount", a) : a \in AmountInputs}

Apply_validate_amount == Apply("validate_amount", validate_amount(arg.val))

SpecAmount == InitAmount /\ [][Apply_validate_amount]_vars

\* validate_transfer_date: clocks at the ends of the range of years and around a
\* leap day; dates around the clock's day, and dates and strings of no day
DateWindow == 2
DateClocks ==
    { 2 * DaysFromCivil(2025, 1, 1), 2 * DaysFromCivil(2026, 11, 2) + 1,
      2 * DaysFromCivil(2028, 2, 28) + 1, 2 * DaysFromCivil(2028, 2, 29),
      2 * DaysFromCivil(2028, 3, 1), 2 * DaysFromCivil(2049, 12, 31) + 1,
      2 * DaysFromCivil(2050, 12, 31) + 1 }

Today(t) == FormatDate(CivilFromDays(t \div 2))
Yesterday(t) == FormatDate(CivilFromDays(t \div 2 - 1))

FixedDates ==
    { DateString(31, 12, 2024), DateString(15, 6, 2024), DateString(1, 1, 2025),
      DateString(29, 2, 2027), DateString(29, 2, 2028), DateString(30, 2, 2028),
      DateString(31, 4, 2030), DateString(31, 5, 2030), DateString(0, 5, 2030),
      DateString(15, 0, 2030), DateString(32, 5, 2030), DateString(15, 13, 2030),
      DateString(31, 12, 2050), DateString(1, 1, 2051), DateString(15, 6, 2051),
      DateString(15, 6, 9999), DateString(15, 6, 0),
      <<"1", "/", "1", "/", "2", "0", "3", "0">>,
      <<"2", "0", "3", "0", "-", "0", "1", "-", "0", "1">>,
      DateString(15, 6, 2030) \o <<"\n">>,
      <<>> }

DateInputs(t) ==
    {FormatDate(CivilFromDays(t \div 2 + k)) : k \in (0 - DateWindow)..DateWindow}
    \cup FixedDates

InitDate ==
    /\ files = QuietFiles
    /\ now \in DateClocks
    /\ call = NoCall
    /\ arg \in {Pending("validate_transfer_date", d) : d \in DateInputs(now)}

Apply_validate_transfer_date ==
    Apply("validate_transfer_date", validate_transfer_date(arg.val, now))

SpecDate == InitDate /\ [][Apply_validate_transfer_date]_vars

(***************************************************************************)
(* C1.  The transfers store never holds two records with the same          *)
(* (from_iban, to_iban, transfer_date, transfer_amount, transfer_concept,  *)
(* transfer_type): it holds none at the start, and no sequence of          *)
(* transfer_request calls makes it hold two.                               *)
(***************************************************************************)
C1_NoTwoRecordsShareSixFields ==
    \A i, j \in 1..Len(Transfers) :
        i # j => SixOfRecord(Transfers[i]) # SixOfRecord(Transfers[j])

(***************************************************************************)
(* C2.  A transfer_request whose six fields are valid: when the store      *)
(* holds no record with these six fields and can be read, the call         *)
(* succeeds and appends the record; when the store already holds one       *)
(* (written at whatever time, with whatever records after it), the call    *)
(* is rejected as a duplicate and leaves every store as it was.            *)
(***************************************************************************)
Stores(fs, a) ==
    \E i \in 1..Len(Recs(fs[TRANSFERS_STORE_FILE])) :
        SixOfRecord(Recs(fs[TRANSFERS_STORE_FILE])[i]) = SixOfArgs(a)

C2_SecondSubmissionRejected ==
    [][ (now' = now /\ call'.op = "transfer_request" /\ IsValidRequest(call'.args, now))
        => IF Stores(files, call'.args)
           THEN call'.err = "Duplicated transfer in transfer list" /\ files' = files
           ELSE files[TRANSFERS_STORE_FILE].st # "corrupt"
                => /\ call'.err = ""
                   /\ Len(Recs(files'[TRANSFERS_STORE_FILE])) = Len(Transfers) + 1
                   /\ Stores(files', call'.args) ]_vars

\* the second submission was rejected: the first record of the store holds the six
\* fields, was written earlier, and another request was stored after it
C2_Witness ==
    /\ call.op = "transfer_request"
    /\ call.err = "Duplicated transfer in transfer list"
    /\ IsValidRequest(call.args, now)
    /\ Len(Transfers) = 2
    /\ SixOfRecord(Transfers[1]) = SixOfArgs(call.args)
    /\ SixOfRecord(Transfers[2]) # SixOfArgs(call.args)
    /\ Transfers[1].time_stamp < call.at

(***************************************************************************)
(* C3.  As claimed: two stored requests with the same six fields carry     *)
(* the same transfer_code, whenever and for whichever store file they      *)
(* were constructed.                                                       *)
(***************************************************************************)
RequestStores == {TRANSFERS_STORE_FILE, OTHER_STORE_FILE}

C3_CodeFromSixFieldsAlone ==
    \A p1, p2 \in RequestStores :
        \A i \in 1..Len(Recs(files[p1])), j \in 1..Len(Recs(files[p2])) :
            SixOfRecord(Recs(files[p1])[i]) = SixOfRecord(Recs(files[p2])[j])
            => Recs(files[p1])[i].transfer_code = Recs(files[p2])[j].transfer_code

(***************************************************************************)
(* C3, amended.  The transfer_code of a stored request is the md5 of       *)
(* "Transfer:" and the serialisation of eight attributes: the store file   *)
(* path, the six fields and the time_stamp.  Requests agreeing on all      *)
(* eight carry the same code.                                              *)
(***************************************************************************)
EightAttributes(path, r) ==
    [transfer_store_file |-> path,
     from_iban |-> r.from_iban,
     to_iban |-> r.to_iban,
     transfer_type |-> r.transfer_type,
     concept |-> r.transfer_concept,
     transfer_date |-> r.transfer_date,
     transfer_amount |-> r.transfer_amount,
     time_stamp |-> r.time_stamp]

C3_CodeFromFieldsTimeAndStore ==
    \A p \in RequestStores : \A i \in 1..Len(Recs(files[p])) :
        Recs(files[p])[i].transfer_code
            = <<"md5", <<"Transfer:", EightAttributes(p, Recs(files[p])[i])>>>>

\* the same six fields were stored at two moments in two store files, under two codes
C3_Witness ==
    /\ Len(Recs(files[TRANSFERS_STORE_FILE])) >= 1
    /\ Len(Recs(files[OTHER_STORE_FILE])) >= 1
    /\ LET r1 == Recs(files[TRANSFERS_STORE_FILE])[1]
           r2 == Recs(files[OTHER_STORE_FILE])[1]
       IN /\ SixOfRecord(r1) = SixOfRecord(r2)
          /\ r1.time_stamp # r2.time_stamp
          /\ r1.transfer_code # r2.transfer_code

(***************************************************************************)
(* C10.  A construction of TransferRequest with an invalid field raises    *)
(* the error of the first invalid field in the order from_iban, to_iban,   *)
(* concept, type, date, amount; it has run the validators up to that one   *)
(* and no other step, and it leaves every store as it was.                 *)
(***************************************************************************)
ClaimedOrder ==
    <<"validate_iban(from_iban)", "validate_iban(to_iban)", "validate_concept",
      "validate_transfer_type", "validate_transfer_date", "validate_amount">>

\* the verdict of the validator of field k on the request a at clock t
FieldVerdict(k, a, t) ==
    CASE k = 1 -> ValidatedIban[a.from_iban]
      [] k = 2 -> ValidatedIban[a.to_iban]
      [] k = 3 -> validate_concept(a.concept)
      [] k = 4 -> validate_transfer_type(a.transfer_type)
      [] k = 5 -> validate_transfer_date(a.date, t)
      [] k = 6 -> validate_amount(a.amount)

InvalidFields(a, t) == {k \in 1..6 : FieldVerdict(k, a, t).err # ""}
FirstInvalid(a, t) == CHOOSE k \in InvalidFields(a, t) : \A l \in InvalidFields(a, t) : k <= l

C10_FirstInvalidFieldDecides ==
    [][ (/\ now' = now
         /\ call'.op \in {"transfer_request", "TransferRequest"}
         /\ InvalidFields(call'.args, now) # {})
        => LET k == FirstInvalid(call'.args, now) IN
           /\ call'.err = FieldVerdict(k, call'.args, now).err
           /\ call'.steps = SubSeq(ClaimedOrder, 1, k)
           /\ files' = files ]_vars

\* a request with three invalid fields was rejected for its to_iban, the first of them
C10_Witness ==
    /\ call.op = "transfer_request"
    /\ InvalidFields(call.args, call.at) = {2, 5, 6}
    /\ call.err = "Invalid IBAN format"
    /\ call.steps = <<"validate_iban(from_iban)", "validate_iban(to_iban)">>

(***************************************************************************)
(* C4.  validate_iban accepts a string exactly when it is 'ES' and 22      *)
(* digits whose check digits are 98 - (BBAN, 1428, 00) mod 97; a string    *)
(* of another shape gets the format error with no checksum computed; and   *)
(* a valid IBAN with its check digits changed to any other value 00..99    *)
(* gets the control-digit error.                                           *)
(***************************************************************************)
WithCheck(s, cc) == SubSeq(s, 1, 2) \o TwoDigits(cc) \o SubSeq(s, 5, Len(s))

C8_ValidateAmount ==
    call.op = "validate_amount" =>
        /\ call.err = "" <=> IsValidAmount(call.args)
        /\ call.err # "" => call.err = "Invalid transfer amount"
        /\ call.args \in {Float(9990), Float(10000010), Float(10005)} => call.err # ""
        /\ call.args \in {Float(10000), Float(10000000)} => call.err = ""

\* the same statement for the amounts that are numbers: every float but nan
C8_ValidateAmountOfNumbers ==
    (call.op = "validate_amount" /\ call.args.kind = "float") =>
        /\ call.err = "" <=> IsValidAmount(call.args)
        /\ call.err # "" => call.err = "Invalid transfer amount"

(***************************************************************************)
(* C9.  validate_transfer_date accepts a string exactly when it is a real  *)
(* date written DD/MM/YYYY, not earlier than the UTC date of the clock,    *)
(* with its year in [2025, 2050].  Today's date is accepted, yesterday's   *)
(* rejected, every date of 2051 and every date of 2024 rejected.           *)
(***************************************************************************)
C9_ValidateDate ==
    call.op = "validate_transfer_date" =>
        /\ call.err = "" <=> IsValidDate(call.args, call.at)
        /\ call.args = Today(call.at) => call.err = ""
        /\ call.args = Yesterday(call.at) => call.err # ""
        /\ (DateShape(call.args) /\ IntOf(SubSeq(call.args, 7, 10), 0) \in {2024, 2051})
           => call.err # ""

\* on the leap day 29/02/2028 the date 29/02/2028 is accepted
C9_Witness ==
    /\ call.op = "validate_transfer_date"
    /\ call.args = DateString(29, 2, 2028)
    /\ call.args = Today(call.at)
    /\ call.err = ""

(***************************************************************************)
(* C5.  calculate_balance of a checksum-valid IBAN, the transaction log    *)
(* and the balances store being readable: when entries of the log carry    *)
(* that IBAN, the call appends to the balances store a snapshot with that  *)
(* IBAN and the sum of the amounts of exactly those entries; when no       *)
(* entry carries it, the call fails with "IBAN not found".                 *)
(***************************************************************************)
RECURSIVE SumOfEntries(_, _, _)
SumOfEntries(log, iban, k) ==
    IF k > Len(log) THEN 0
    ELSE (IF log[k].IBAN = iban THEN float_of_str(log[k].amount).value.milli ELSE 0)
         + SumOfEntries(log, iban, k + 1)

C5_BalanceOfMatchingEntries ==
    [][ (/\ now' = now
         /\ call'.op \in {"calculate_balance", "GE4.calculate_balance"}
         /\ call'.args.iban \in ValidCallerIbans
         /\ files[TRANSACTIONS_STORE_FILE].st = "ok"
         /\ files[BALANCES_STORE_FILE].st # "corrupt")
        => LET log == files[TRANSACTIONS_STORE_FILE].recs
               iban == call'.args.iban
               old == Recs(files[BALANCES_STORE_FILE])
               new == Recs(files'[BALANCES_STORE_FILE])
           IN IF \E k \in 1..Len(log) : log[k].IBAN = iban
              THEN /\ call'.err = ""
                   /\ Len(new) = Len(old) + 1
                   /\ SubSeq(new, 1, Len(old)) = old
                   /\ new[Len(new)].IBAN = iban
                   /\ new[Len(new)].BALANCE = Float(SumOfEntries(log, iban, 1))
              ELSE call'.err = "IBAN not found" /\ files' = files ]_vars

(***************************************************************************)
(* C6.  Every step leaves the transactions store as it was and leaves      *)
(* each other store as it was or with one record added at its end.  A      *)
(* call that succeeds adds one record to its own store and touches no      *)
(* other; a call that fails, and the passing of time, change no store.     *)
(***************************************************************************)
AppendedStores ==
    {TRANSFERS_STORE_FILE, OTHER_STORE_FILE, DEPOSITS_STORE_FILE, BALANCES_STORE_FILE}

OwnStore(op) ==
    CASE op = "transfer_request" -> TRANSFERS_STORE_FILE
      [] op = "TransferRequest" -> OTHER_STORE_FILE
      [] op \in {"deposit_into_account", "GE4.deposit_into_account"} -> DEPOSITS_STORE_FILE
      [] op \in {"calculate_balance", "GE4.calculate_balance"} -> BALANCES_STORE_FILE

GrewByOne(old, new) ==
    /\ old.st # "corrupt"
    /\ new.st = "ok"
    /\ Len(new.recs) = Len(Recs(old)) + 1
    /\ SubSeq(new.recs, 1, Len(Recs(old))) = Recs(old)

C6_StoresOnlyGrowByAppending ==
    [][ /\ files'[TRANSACTIONS_STORE_FILE] = files[TRANSACTIONS_STORE_FILE]
        /\ \A p \in AppendedStores : files'[p] = files[p] \/ GrewByOne(files[p], files'[p])
        /\ now' # now => files' = files
        /\ now' = now =>
              IF call'.err = ""
              THEN /\ GrewByOne(files[OwnStore(call'.op)], files'[OwnStore(call'.op)])
                   /\ \A p \in Paths \ {OwnStore(call'.op)} : files'[p] = files[p]
              ELSE files' = files ]_vars

\* a snapshot was appended to a balances store that held one already
C6_Witness ==
    /\ call.op = "GE4.calculate_balance"
    /\ call.err = ""
    /\ Len(Recs(files[BALANCES_STORE_FILE])) = 2

(***************************************************************************)
(* C7.  deposit_into_account given an input file with both keys and a      *)
(* checksum-valid IBAN: an AMOUNT that is not 'EUR ', 4 digits, a dot and  *)
(* 2 digits gets the invalid-deposit-amount error, the AMOUNT              *)
(* 'EUR 0000.00' gets the must-be-greater-than-0 error, and in both cases  *)
(* no store changes.                                                       *)
(***************************************************************************)
C7_DepositAmountRejected ==
    [][ (/\ now' = now
         /\ call'.op \in {"deposit_into_account", "GE4.deposit_into_account"}
         /\ call'.args.st = "ok"
         /\ {"IBAN", "AMOUNT"} \subseteq call'.args.keys
         /\ call'.args.IBAN \in ValidCallerIbans)
        => /\ ~DepositAmountRegex(call'.args.AMOUNT)
              => call'.err = "Error - Invalid deposit amount" /\ files' = files
           /\ call'.args.AMOUNT = Amount_Zero
              => call'.err = "Error - Deposit must be greater than 0" /\ files' = files ]_vars

(***************************************************************************)
(* The transfer type checks exercised alone.                               *)
(***************************************************************************)
Affixes == {<<>>, <<"X">>, <<" ">>, <<"_", "1">>}

TypeInputs ==
    { pre \o l \o suf : pre \in Affixes, suf \in Affixes,
                        l \in {ORDINARY, INMEDIATE, IMMEDIATE, URGENT} }
    \cup { <<>>, <<"o", "r", "d", "i", "n", "a", "r", "y">>,
           <<"O", "R", "D", "I", "N", "A", "R">>, <<"U", "R", "G", "E", "N">>,
           <<"T", "R", "A", "N", "S", "F", "E", "R">>, <<"N", "O", "N", "E">> }

InitType ==
    /\ files = QuietFiles
    /\ now = StartClock
    /\ call = NoCall
    /\ arg \in {Pending(fn, ty) : fn \in {"validate_transfer_type", "GE4.transfer_type"},
                                  ty \in TypeInputs}

Apply_validate_transfer_type ==
    Apply("validate_transfer_type", validate_transfer_type(arg.val))

Apply_GE4_transfer_type ==
    Apply("GE4.transfer_type", GE4_validate_transfer_type(arg.val))

NextType == Apply_validate_transfer_type \/ Apply_GE4_transfer_type

SpecType == InitType /\ [][NextType]_vars

(***************************************************************************)
(* C12.  As claimed: a transfer type is accepted when it contains one of   *)
(* the enumerated literals, with whatever characters before or after it,   *)
(* and is rejected with the invalid-type error only when it contains none. *)
(***************************************************************************)
EnumeratedTypes(fn) ==
    IF fn = "validate_transfer_type" THEN {ORDINARY, INMEDIATE, URGENT}
    ELSE {ORDINARY, IMMEDIATE, URGENT}

ContainsLiteral(value, l) ==
    \E i \in 1..(Len(value) - Len(l) + 1) : SubSeq(value, i, i + Len(l) - 1) = l

C12_SubstringTolerated ==
    call.op \in {"validate_transfer_type", "GE4.transfer_type"}
    => IF \E l \in EnumeratedTypes(call.op) : ContainsLiteral(call.args, l)
       THEN call.err = ""
       ELSE call.err = "Invalid transfer type"

(***************************************************************************)
(* C12, amended.  A transfer type is accepted exactly when it is one of    *)
(* the enumerated literals, nothing before it and nothing after it; every  *)
(* other string is rejected with the invalid-type error.                   *)
(***************************************************************************)
C12_ExactLiteralOnly ==
    call.op \in {"validate_transfer_type", "GE4.transfer_type"}
    => IF call.args \in EnumeratedTypes(call.op)
       THEN call.err = ""
       ELSE call.err = "Invalid transfer type"

\* a type that contains ORDINARY after another character was rejected
C12_Witness ==
    /\ call.op = "validate_transfer_type"
    /\ call.args = <<"X">> \o ORDINARY
    /\ call.err = "Invalid transfer type"

(***************************************************************************)
(* C11.  A call whose inputs would have it append a record (a valid        *)
(* transfer request the store does not hold, a deposit of a valid IBAN     *)
(* and a well-formed amount above 0, a balance of a valid IBAN the log     *)
(* carries): with its store absent, the call succeeds and the store then   *)
(* holds exactly the one new record; with its store not decodable, the     *)
(* call fails with the decode error and no store changes.  A               *)
(* calculate_balance with the transactions store absent fails and changes  *)
(* no store.                                                               *)
(***************************************************************************)
TransferOps == {"transfer_request"}
DepositOps == {"deposit_into_account", "GE4.deposit_into_account"}
BalanceOps == {"calculate_balance", "GE4.calculate_balance"}

WouldAppend(op, a, fs, t) ==
    CASE op \in TransferOps -> IsValidRequest(a, t) /\ ~Stores(fs, a)
      [] op \in DepositOps ->
            /\ a.st = "ok"
            /\ {"IBAN", "AMOUNT"} \subseteq a.keys
            /\ a.IBAN \in ValidCallerIbans
            /\ DepositAmountRegex(a.AMOUNT)
            /\ a.AMOUNT # Amount_Zero
      [] op \in BalanceOps ->
            /\ a.iban \in ValidCallerIbans
            /\ fs[TRANSACTIONS_STORE_FILE].st = "ok"
            /\ \E k \in 1..Len(fs[TRANSACTIONS_STORE_FILE].recs) :
                   fs[TRANSACTIONS_STORE_FILE].recs[k].IBAN = a.iban
      [] OTHER -> FALSE

C11_AbsentIsEmptyCorruptIsFatal ==
    [][ now' = now =>
        /\ WouldAppend(call'.op, call'.args, files, now) =>
              LET p == OwnStore(call'.op) IN
              /\ files[p].st = "absent"
                 => call'.err = "" /\ files'[p].st = "ok" /\ Len(files'[p].recs) = 1
              /\ files[p].st = "corrupt"
                 => call'.err = "JSON Decode Error - Wrong JSON Format" /\ files' = files
        /\ (call'.op \in BalanceOps /\ files[TRANSACTIONS_STORE_FILE].st = "absent")
              => call'.err # "" /\ files' = files ]_vars

(***************************************************************************)
(* C11, where the store is reached.  Every call that gets as far as        *)
(* loading its store treats an absent store as an empty list and fails on  *)
(* an undecodable one without changing any store; calculate_balance with   *)
(* the transactions store absent fails and changes no store.               *)
(***************************************************************************)
Loads(steps) == \E k \in 1..Len(steps) : steps[k] = "load"

C11_StoreHandlingWhereReached ==
    [][ now' = now =>
        /\ Loads(call'.steps) =>
              LET p == OwnStore(call'.op) IN
              /\ (files[p].st = "absent" /\ call'.err = "")
                 => files'[p].st = "ok" /\ Len(files'[p].recs) = 1
              /\ files[p].st = "corrupt"
                 => call'.err = "JSON Decode Error - Wrong JSON Format" /\ files' = files
        /\ (call'.op \in BalanceOps /\ files[TRANSACTIONS_STORE_FILE].st = "absent")
              => call'.err # "" /\ files' = files ]_vars

\* a call reached its absent store and created it with one record
C11_Witness ==
    /\ call.op = "transfer_request"
    /\ call.err = ""
    /\ Loads(call.steps)
    /\ Len(Transfers) = 1
    /\ files[DEPOSITS_STORE_FILE].st = "absent"

(***************************************************************************)
(* C14.  Every record of the transfers store has checksum-valid from_iban  *)
(* and to_iban, a concept of 10-30 letters in two or more words separated  *)
(* by single spaces, a type of the enumerated set, a real date of a year   *)
(* in 2025..2050 that was not before the day of its time_stamp, and an     *)
(* amount in [10.00, 10000.00] with at most 2 decimals.                    *)
(***************************************************************************)
ArgsOfRecord(r) ==
    TransferArgs(r.from_iban, r.to_iban, r.transfer_concept, r.transfer_type,
                 r.transfer_date, r.transfer_amount)

C14_StoredRecordsAreValid ==
    \A i \in 1..Len(Transfers) :
        IsValidRequest(ArgsOfRecord(Transfers[i]), Transfers[i].time_stamp)

(***************************************************************************)
(* C14, amounts that are numbers.  Every record of the transfers store     *)
(* whose amount is not NaN is valid in all six fields.                     *)
(***************************************************************************)
C14_StoredRecordsOfNumbersAreValid ==
    \A i \in 1..Len(Transfers) :
        Transfers[i].transfer_amount.kind # "nan"
        => IsValidRequest(ArgsOfRecord(Transfers[i]), Transfers[i].time_stamp)

(***************************************************************************)
(* Two callers constructing TransferRequest objects on the same store      *)
(* path at once.  Each caller runs __init__ in the steps that touch the    *)
(* file system one at a time: the load of lines 152-158, the scan and the  *)
(* in-memory append of lines 159-161, the open(..., "w") of line 164,      *)
(* which empties the file, and the json.dump of line 165 completed by the  *)
(* close of the file.  arg holds the callers' positions and locals.        *)
(***************************************************************************)
Callers == {1, 2}

Idle == [pc |-> "idle", a |-> <<>>, self |-> <<>>, t_l |-> <<>>, err |-> "", steps |-> <<>>]

RaceInputs ==
    { GoodArgs,
      [GoodArgs EXCEPT !.concept = Concept_OneWord \o <<" ">> \o Concept_OneWord],
      [GoodArgs EXCEPT !.from_iban = IBAN_BadControl] }

\* caller p returns or raises: the call is over
Returned(p, c, err, steps) ==
    /\ arg' = [arg EXCEPT ![p] = [c EXCEPT !.pc = "done", !.err = err, !.steps = steps]]
    /\ call' = Called("transfer_request", c.a, err,
                      IF err = "" THEN transfer_code(c.self) ELSE <<>>, steps)

\* lines 21-36: the attributes, the time stamp and the six validators
Race_Begin(p, a) ==
    LET self == Object(a.from_iban, a.transfer_type, a.to_iban, a.concept, a.date,
                       a.amount, TRANSFERS_STORE_FILE, now)
        v == RunValidators(self, now, InitOrder, 1, <<>>)
        c == [arg[p] EXCEPT !.a = a, !.self = self]
    IN /\ arg[p].pc = "idle"
       /\ IF v.err # ""
          THEN Returned(p, c, v.err, v.steps)
          ELSE /\ arg' = [arg EXCEPT ![p] = [c EXCEPT !.pc = "load", !.steps = v.steps]]
               /\ UNCHANGED call
       /\ UNCHANGED <<files, now>>

\* lines 152-158: json.load of the store as it is now
Race_Load(p) ==
    LET c == arg[p]
        file == files[c.self.transfer_store_file]
    IN /\ c.pc = "load"
       /\ IF file.st = "corrupt"
          THEN Returned(p, c, "JSON Decode Error - Wrong JSON Format",
                        c.steps \o <<"store_transfer_request", "load">>)
          ELSE /\ arg' = [arg EXCEPT ![p] =
                            [c EXCEPT !.pc = "scan", !.t_l = Recs(file),
                                      !.steps = c.steps \o <<"store_transfer_request", "load">>]]
               /\ UNCHANGED call
       /\ UNCHANGED <<files, now>>

\* lines 159-161: the duplicate scan of the list that was loaded, then the append to it
Race_Scan(p) ==
    LET c == arg[p] IN
    /\ c.pc = "scan"
    /\ IF \E i \in 1..Len(c.t_l) : is_duplicate_transfer(c.self, c.t_l[i])
       THEN Returned(p, c, "Duplicated transfer in transfer list", Append(c.steps, "scan"))
       ELSE /\ arg' = [arg EXCEPT ![p] =
                         [c EXCEPT !.pc = "open", !.t_l = Append(c.t_l, to_json(c.self)),
                                   !.steps = Append(c.steps, "scan")]]
            /\ UNCHANGED call
    /\ UNCHANGED <<files, now>>

\* line 164: open(..., "w") leaves an empty file, which json.load cannot decode
Race_Open(p) ==
    LET c == arg[p] IN
    /\ c.pc = "open"
    /\ files' = [files EXCEPT ![c.self.transfer_store_file] = Corrupt]
    /\ arg' = [arg EXCEPT ![p] = [c EXCEPT !.pc = "dump"]]
    /\ UNCHANGED <<now, call>>

json_dump_merges(t_l, path, fs) ==
    [fs EXCEPT ![path] = Stored(Recs(fs[path]) \o <<t_l[Len(t_l)]>>)]

\* line 165: json.dump(t_l, file2) and the close of the file: the file holds t_l
json_dump(t_l, path, fs) == [fs EXCEPT ![path] = Stored(t_l)]

Race_Dump(p) ==
    LET c == arg[p] IN
    /\ c.pc = "dump"
    /\ files' = json_dump(c.t_l, c.self.transfer_store_file, files)
    /\ Returned(p, c, "", Append(c.steps, "dump"))
    /\ UNCHANGED now

InitRace ==
    /\ files \in {QuietFiles, [QuietFiles EXCEPT ![TRANSFERS_STORE_FILE] = Stored(<<>>)]}
    /\ now = StartClock
    /\ call = NoCall
    /\ arg = [p \in Callers |-> Idle]

NextRace ==
    \/ \E p \in Callers : \E a \in RaceInputs : Race_Begin(p, a)
    \/ \E p \in Callers : Race_Load(p)
    \/ \E p \in Callers : Race_Scan(p)
    \/ \E p \in Callers : Race_Open(p)
    \/ \E p \in Callers : Race_Dump(p)
    \/ Tick

SpecRace == InitRace /\ [][NextRace]_vars

(***************************************************************************)
(* C13.  With two callers interleaved on one store path, nothing ties a    *)
(* caller's steps to the store as it is now: its duplicate scan passes or  *)
(* raises on the list it loaded, whatever the store holds at that moment,  *)
(* and its write returns success and leaves in the store the list it       *)
(* loaded followed by its own record, whatever another caller wrote in     *)
(* between.  The lost update and the duplicate that is not rejected are    *)
(* the states C13_Witness and C13_LostUpdate.                              *)
(***************************************************************************)
LoadedHolds(c) ==
    \E i \in 1..Len(c.t_l) : SixOfRecord(c.t_l[i]) = SixOfArgs(c.a)

C13_CallersActOnWhatTheyLoaded ==
    [][ \A p \in Callers :
          /\ (arg[p].pc = "scan" /\ arg'[p].pc # "scan")
             => IF LoadedHolds(arg[p])
                THEN /\ arg'[p].pc = "done"
                     /\ arg'[p].err = "Duplicated transfer in transfer list"
                     /\ files' = files
                ELSE arg'[p].pc = "open" /\ files' = files
          /\ (arg[p].pc = "dump" /\ arg'[p].pc # "dump")
             => /\ arg'[p].pc = "done"
                /\ arg'[p].err = ""
                /\ arg[p].t_l[Len(arg[p].t_l)] = to_json(arg[p].self)
                /\ files'[TRANSFERS_STORE_FILE] = Stored(arg[p].t_l) ]_vars

BothSucceeded ==
    \A p \in Callers :
        /\ arg[p].pc = "done"
        /\ arg[p].err = ""
        /\ arg[p].steps[Len(arg[p].steps)] = "dump"

\* both callers submitted the same six fields, both passed the duplicate scan and
\* returned success, and the store holds one of the two records
C13_Witness ==
    /\ BothSucceeded
    /\ SixOfArgs(arg[1].a) = SixOfArgs(arg[2].a)
    /\ Len(Transfers) = 1
    /\ IsValidRequest(arg[1].a, now)

\* the callers submitted different requests, both returned success, and the store
\* holds the record of one of them only
C13_LostUpdate ==
    /\ BothSucceeded
    /\ SixOfArgs(arg[1].a) # SixOfArgs(arg[2].a)
    /\ Len(Transfers) = 1
    /\ SixOfRecord(Transfers[1]) = SixOfArgs(arg[2].a)

====
